---------------------------- MODULE Spec2Model ----------------------------
(***************************************************************************)
(* The water-box molecular dynamics workflow of 2_water_simulation.ipynb:  *)
(* input loading, platform selection, system construction, the NPT         *)
(* equilibration, the production run, the trajectory analysis (two RDFs)   *)
(* and plotting, as a sequential script.                                    *)
(*                                                                         *)
(* The physics is abstracted: positions and velocities are values of       *)
(* Coord, a periodic box is a value of Box, and what an integrator or the   *)
(* minimiser does to them is a nondeterministic choice.  What the script   *)
(* itself decides (which objects are created from which, which reporters   *)
(* are attached where, how many steps are run, what is handed from one     *)
(* stage to the next) is modelled statement by statement.                  *)
(***************************************************************************)
EXTENDS Integers, Sequences, FiniteSets, TLC

\* ------------------------------------------------------------------ bounds
MaxCoord == 1          \* positions and velocities range over 0..MaxCoord
MaxBox == 2            \* box edge lengths range over 1..MaxBox
MaxFailChunk == 1      \* a step() call may raise in its passes 0..MaxFailChunk
MaxFrames == 2         \* trajectories analysed by SpecRDF hold 1..MaxFrames frames
MaxRes == 2            \* water boxes analysed by SpecRDF hold 1..MaxRes residues
Scale == 10            \* distance grid of SpecRDF: grid points per Angstrom

\* ------------------------------------------------------- program constants
NPTSteps == 50000
ProdSteps == 500000
NPTLogInterval == 1000
DCDInterval == 1000
ProdLogInterval == 1000
RDFBins == 100
RDFRangeLo == 0
RDFRangeHi == 10

Coord == 0..MaxCoord
Box == 1..MaxBox

NptLogFile == "water/npt.log"
ProdLogFile == "water/production.log"
DcdFile == "water/production.dcd"
Files == {NptLogFile, ProdLogFile, DcdFile}

Barostat == "MonteCarloBarostat"

VARIABLES
    pc,            \* the statement block the script is at
    available,     \* the platforms installed on the host
    inpcrd,        \* the loaded coordinate file
    platform,      \* the variable `platform` ("unbound" before it is assigned)
    properties,    \* the variable `properties` (a set of settings, or "unbound")
    system,        \* the System object: its forces and default box
    simulationNPT, \* the NPT Simulation and its context (exists = FALSE before)
    simulationProd,\* the production Simulation and its context
    state_eq,      \* positions_eq / velocities_eq / box_vectors_eq
    files,         \* what has been written to each output file (step numbers)
    contexts,      \* the contexts alive in the process
    acquired,      \* how many contexts have been created so far
    equilibrations,\* the ensembles of the equilibration runs completed
    history,       \* the statement blocks completed, in order
    failedAt,      \* the block in which an uncaught exception was raised
    universe,      \* the MDAnalysis Universe (loaded, n_frames)
    loop,          \* the step() call in progress: its endStep and chunks done
    rdf            \* the state of the RDF analysis (see SpecRDF)

wfVars == <<pc, available, inpcrd, platform, properties, system, simulationNPT,
            simulationProd, state_eq, files, contexts, acquired, equilibrations,
            history, failedAt, universe, loop>>
vars == <<pc, available, inpcrd, platform, properties, system, simulationNPT,
          simulationProd, state_eq, files, contexts, acquired, equilibrations,
          history, failedAt, universe, loop, rdf>>

\* ------------------------------------------------------------ script order
\* The statement blocks of the notebook in cell order.
Stages == <<"load", "platform", "createSystem", "nptCreate", "nptInit",
            "minimize", "nptReporter", "nptStep", "getState", "prodCreate",
            "prodInit", "prodReporters", "prodStep", "timings", "universe",
            "rdf", "plot">>

Index(stage) == CHOOSE i \in 1..Len(Stages) : Stages[i] = stage

IsStage(p) == \E i \in 1..Len(Stages) : Stages[i] = p

\* A block the script order could wrongly place: the state read before the run.
SuccessorSwapped(stage) ==
    CASE stage = "nptReporter" -> "getState"
      [] stage = "getState" -> "nptStep"
      [] stage = "nptStep" -> "prodCreate"
      [] OTHER -> IF Index(stage) = Len(Stages) THEN "done"
                  ELSE Stages[Index(stage) + 1]

\* The block that runs after `stage` completes.
Successor(stage) ==
    IF Index(stage) = Len(Stages) THEN "done" ELSE Stages[Index(stage) + 1]

\* A handler that swallows the exception and goes on with the next block.
OnExceptionContinue(stage) == Successor(stage)

\* Where control goes when a block raises: nothing catches it (the one
\* try/except, around the CUDA lookup, is part of SelectPlatform).
OnException(stage) == "terminated"


\* --------------------------------------------------------------- platforms
\* The platforms an OpenMM build can register, fastest first.
PlatformsBySpeed == <<"CUDA", "CPU", "Reference">>

\* The hosts considered: Reference is built in, the others are plugins.
Hosts == {{"Reference"}, {"CPU", "Reference"}, {"CUDA", "CPU", "Reference"}}

\* The platform a Context gets when none is passed to app.Simulation: the
\* fastest one installed.
DefaultPlatform(avail) ==
    PlatformsBySpeed[CHOOSE i \in 1..Len(PlatformsBySpeed) :
        /\ PlatformsBySpeed[i] \in avail
        /\ \A j \in 1..(i - 1) : PlatformsBySpeed[j] \notin avail]

\* ------------------------------------------------------------- simulations
NoSimulation ==
    [exists |-> FALSE, platform |-> "none", forces |-> {}, currentStep |-> 0,
     positions |-> 0, velocities |-> 0, box |-> 1,
     posSet |-> FALSE, velSet |-> FALSE, boxSet |-> FALSE, reporters |-> {}]

\* A production Simulation whose step counter goes on from the equilibration's.
NewSimulationContinuing(avail, sys) ==
    [exists |-> TRUE, platform |-> DefaultPlatform(avail), forces |-> sys.forces,
     currentStep |-> simulationNPT.currentStep,
     positions |-> 0, velocities |-> 0, box |-> sys.defaultBox,
     posSet |-> FALSE, velSet |-> FALSE, boxSet |-> FALSE, reporters |-> {}]

\* app.Simulation(prmtop.topology, system, integrator): no platform and no
\* properties are passed; the context takes the system's forces and default
\* box, zero velocities, no positions, and the step counter starts at 0.
NewSimulation(avail, sys) ==
    [exists |-> TRUE, platform |-> DefaultPlatform(avail), forces |-> sys.forces,
     currentStep |-> 0,
     positions |-> 0, velocities |-> 0, box |-> sys.defaultBox,
     posSet |-> FALSE, velSet |-> FALSE, boxSet |-> FALSE, reporters |-> {}]

\* The ensemble a context integrates: constant pressure with a barostat force
\* in its system, constant volume without.
Ensemble(sim) == IF Barostat \in sim.forces THEN "NPT" ELSE "NVT"

\* getState(getPositions=True, enforcePeriodicBox=True) returns the positions
\* wrapped into the periodic box.
Wrap(pos, b) == pos % b

\* The triple read from a context.
GetState(sim) ==
    [positions |-> Wrap(sim.positions, sim.box),
     velocities |-> sim.velocities,
     box |-> sim.box]

\* A hand-off that forgets the velocities.
SetStateNoVelocities(sim, st) ==
    [sim EXCEPT !.positions = st.positions, !.posSet = TRUE,
                !.box = st.box, !.boxSet = TRUE]

\* setPositions(positions_eq); setVelocities(velocities_eq);
\* setPeriodicBoxVectors(*box_vectors_eq)
SetState(sim, st) ==
    [sim EXCEPT !.positions = st.positions, !.posSet = TRUE,
                !.velocities = st.velocities, !.velSet = TRUE,
                !.box = st.box, !.boxSet = TRUE]

\* --------------------------------------------------------------- reporters
Reporter(kind, file, interval) ==
    [kind |-> kind, file |-> file, interval |-> interval]

NPTReporters == {Reporter("StateData", NptLogFile, NPTLogInterval)}

\* A trajectory reporter attached with ten times the log's interval.
ProdReportersSparseDcd ==
    {Reporter("DCD", DcdFile, DCDInterval * 10),
     Reporter("StateData", ProdLogFile, ProdLogInterval)}

ProdReporters ==
    {Reporter("DCD", DcdFile, DCDInterval),
     Reporter("StateData", ProdLogFile, ProdLogInterval)}

\* describeNextReport: the steps until the reporter's next report.
StepsToNextReport(r, currentStep) == r.interval - (currentStep % r.interval)

SetMin(S) == CHOOSE x \in S : \A y \in S : x <= y

\* One pass of the loop of Simulation._simulate(endStep): advance to the next
\* report or to the end, whichever comes first, and let the reporters due
\* there report (a report is recorded as the step number it is made at).
SimulateChunk(cur, endStep, reporters, fs) ==
    LET left == endStep - cur
        cands == {StepsToNextReport(r, cur) : r \in reporters}
        nextSteps == SetMin({left} \cup {n \in cands : n > 0 /\ n <= left})
        due == {r \in reporters : StepsToNextReport(r, cur) = nextSteps}
        new == cur + nextSteps
    IN [currentStep |-> new,
        files |-> [f \in DOMAIN fs |->
                     IF \E r \in due : r.file = f THEN Append(fs[f], new)
                     ELSE fs[f]]]

\* What a completed step() call leaves in the context: any positions and
\* velocities, and any box when the system holds a barostat (the box is
\* fixed otherwise).  The context's state while the call is in progress is
\* not observable by the script and is not modelled.
Integrated(sim) ==
    {[sim EXCEPT !.positions = p, !.velocities = v, !.box = b] :
        p \in Coord, v \in Coord,
        b \in IF Barostat \in sim.forces THEN Box ELSE {sim.box}}

\* ------------------------------------------------------------------- state
NoState == [read |-> FALSE, positions |-> 0, velocities |-> 0, box |-> 1]
NoUniverse == [loaded |-> FALSE, n_frames |-> 0]
NoLoop == [active |-> FALSE, endStep |-> 0, chunks |-> 0]
NoSystem == [created |-> FALSE, forces |-> {}, defaultBox |-> 1]
RdfIdle == [phase |-> "idle"]

\* The coordinate files considered: positions at either end of the range, with
\* or without box vectors.
Inpcrds == [positions : {0, MaxCoord}, boxVectors : {<<>>, <<MaxBox>>}]

InitWorkflow ==
    /\ pc = "load"
    /\ available \in Hosts
    /\ inpcrd \in Inpcrds
    /\ platform = "unbound"
    /\ properties = "unbound"
    /\ system = NoSystem
    /\ simulationNPT = NoSimulation
    /\ simulationProd = NoSimulation
    /\ state_eq = NoState
    /\ files = [f \in Files |-> <<>>]
    /\ contexts = {}
    /\ acquired = 0
    /\ equilibrations = <<>>
    /\ history = <<>>
    /\ failedAt = "none"
    /\ universe = NoUniverse
    /\ loop = NoLoop

Init == InitWorkflow /\ rdf = RdfIdle

\* Completing the current block.
Advance ==
    /\ pc' = Successor(pc)
    /\ history' = Append(history, pc)
    /\ failedAt' = failedAt

\* ----------------------------------------------------------------- actions
\* prmtop = app.AmberPrmtopFile(...); inpcrd = app.AmberInpcrdFile(...)
LoadInputs ==
    /\ pc = "load"
    /\ Advance
    /\ UNCHANGED <<available, inpcrd, platform, properties, system,
                   simulationNPT, simulationProd, state_eq, files, contexts,
                   acquired, equilibrations, universe, loop, rdf>>

\* try: platform = getPlatformByName('CUDA'); properties = {...}
\* except OpenMMException: platform = getPlatformByName('Reference')
SelectPlatform ==
    /\ pc = "platform"
    /\ IF "CUDA" \in available
         THEN platform' = "CUDA" /\ properties' = "CudaPrecision=mixed"
         ELSE platform' = "Reference" /\ properties' = properties
    /\ Advance
    /\ UNCHANGED <<available, inpcrd, system, simulationNPT, simulationProd,
                   state_eq, files, contexts, acquired, equilibrations,
                   universe, loop, rdf>>

\* system = prmtop.createSystem(nonbondedMethod=PME, ..., constraints=HBonds)
CreateSystem ==
    /\ pc = "createSystem"
    /\ system' = [created |-> TRUE, forces |-> {"NonbondedForce"},
                  defaultBox |-> 1]
    /\ Advance
    /\ UNCHANGED <<available, inpcrd, platform, properties, simulationNPT,
                   simulationProd, state_eq, files, contexts, acquired,
                   equilibrations, universe, loop, rdf>>

\* integratorNPT = LangevinIntegrator(...);
\* system.addForce(MonteCarloBarostat(pressure, temperature));
\* simulationNPT = app.Simulation(prmtop.topology, system, integratorNPT)
CreateNPT ==
    /\ pc = "nptCreate"
    /\ LET sys == [system EXCEPT !.forces = @ \cup {Barostat}]
       IN /\ system' = sys
          /\ simulationNPT' = NewSimulation(available, sys)
    /\ contexts' = contexts \cup {"simulationNPT"}
    /\ acquired' = acquired + 1
    /\ Advance
    /\ UNCHANGED <<available, inpcrd, platform, properties, simulationProd,
                   state_eq, files, equilibrations, universe, loop, rdf>>

\* simulationNPT.context.setPositions(inpcrd.positions);
\* if inpcrd.boxVectors is not None: setPeriodicBoxVectors(*inpcrd.boxVectors)
InitNPT ==
    /\ pc = "nptInit"
    /\ simulationNPT' =
         IF inpcrd.boxVectors # <<>>
           THEN [simulationNPT EXCEPT !.positions = inpcrd.positions,
                                      !.posSet = TRUE,
                                      !.box = inpcrd.boxVectors[1],
                                      !.boxSet = TRUE]
           ELSE [simulationNPT EXCEPT !.positions = inpcrd.positions,
                                      !.posSet = TRUE]
    /\ Advance
    /\ UNCHANGED <<available, inpcrd, platform, properties, system,
                   simulationProd, state_eq, files, contexts, acquired,
                   equilibrations, universe, loop, rdf>>

\* simulationNPT.minimizeEnergy(): moves the positions; the step counter, the
\* velocities and the box stay, and no reporter is called.
MinimizeEnergy ==
    /\ pc = "minimize"
    /\ \E p \in Coord : simulationNPT' = [simulationNPT EXCEPT !.positions = p]
    /\ Advance
    /\ UNCHANGED <<available, inpcrd, platform, properties, system,
                   simulationProd, state_eq, files, contexts, acquired,
                   equilibrations, universe, loop, rdf>>

\* simulationNPT.reporters.append(app.StateDataReporter("water/npt.log", 1000, ...))
\* (the reporter opens its file for writing)
AttachNPTReporter ==
    /\ pc = "nptReporter"
    /\ simulationNPT' = [simulationNPT EXCEPT !.reporters = @ \cup NPTReporters]
    /\ files' = [f \in Files |->
                   IF \E r \in NPTReporters : r.file = f THEN <<>> ELSE files[f]]
    /\ Advance
    /\ UNCHANGED <<available, inpcrd, platform, properties, system,
                   simulationProd, state_eq, contexts, acquired,
                   equilibrations, universe, loop, rdf>>

\* simulationNPT.step(50000) is called: endStep = currentStep + 50000
BeginStepNPT ==
    /\ pc = "nptStep"
    /\ ~loop.active
    /\ loop' = [active |-> TRUE, chunks |-> 0,
                endStep |-> simulationNPT.currentStep + NPTSteps]
    /\ UNCHANGED <<pc, available, inpcrd, platform, properties, system,
                   simulationNPT, simulationProd, state_eq, files, contexts,
                   acquired, equilibrations, history, failedAt, universe, rdf>>

\* one pass of the loop of simulationNPT.step(50000)
ChunkNPT ==
    /\ pc = "nptStep"
    /\ loop.active
    /\ simulationNPT.currentStep < loop.endStep
    /\ LET run == SimulateChunk(simulationNPT.currentStep, loop.endStep,
                                simulationNPT.reporters, files)
       IN /\ simulationNPT' = [simulationNPT EXCEPT !.currentStep = run.currentStep]
          /\ files' = run.files
    /\ loop' = [loop EXCEPT !.chunks = @ + 1]
    /\ UNCHANGED <<pc, available, inpcrd, platform, properties, system,
                   simulationProd, state_eq, contexts, acquired, equilibrations,
                   history, failedAt, universe, rdf>>

\* simulationNPT.step(50000) returns
EndStepNPT ==
    /\ pc = "nptStep"
    /\ loop.active
    /\ simulationNPT.currentStep >= loop.endStep
    /\ simulationNPT' \in Integrated(simulationNPT)
    /\ equilibrations' = Append(equilibrations, Ensemble(simulationNPT))
    /\ loop' = NoLoop
    /\ Advance
    /\ UNCHANGED <<available, inpcrd, platform, properties, system,
                   simulationProd, state_eq, files, contexts, acquired,
                   universe, rdf>>

\* state_eq = simulationNPT.context.getState(getPositions=True,
\*     getVelocities=True, enforcePeriodicBox=True); positions_eq = ...;
\* velocities_eq = ...; box_vectors_eq = ...
GetEquilibratedState ==
    /\ pc = "getState"
    /\ LET st == GetState(simulationNPT)
       IN state_eq' = [read |-> TRUE, positions |-> st.positions,
                       velocities |-> st.velocities, box |-> st.box]
    /\ Advance
    /\ UNCHANGED <<available, inpcrd, platform, properties, system,
                   simulationNPT, simulationProd, files, contexts, acquired,
                   equilibrations, universe, loop, rdf>>

\* The equilibration's simulation deleted before the production's is made.
ContextsAfterProdReleasingNPT == {"simulationProd"}

\* The contexts alive once simulationProd exists: simulationNPT is still
\* bound, so its context stays.
ContextsAfterProd == contexts \cup {"simulationProd"}

\* integratorProd = LangevinIntegrator(...);
\* simulationProd = app.Simulation(prmtop.topology, system, integratorProd)
CreateProd ==
    /\ pc = "prodCreate"
    /\ simulationProd' = NewSimulation(available, system)
    /\ contexts' = ContextsAfterProd
    /\ acquired' = acquired + 1
    /\ Advance
    /\ UNCHANGED <<available, inpcrd, platform, properties, system,
                   simulationNPT, state_eq, files, equilibrations, universe,
                   loop, rdf>>

\* simulationProd.context.setPositions(positions_eq); setVelocities(...);
\* setPeriodicBoxVectors(*box_vectors_eq)
InitProd ==
    /\ pc = "prodInit"
    /\ simulationProd' = SetState(simulationProd, state_eq)
    /\ Advance
    /\ UNCHANGED <<available, inpcrd, platform, properties, system,
                   simulationNPT, state_eq, files, contexts, acquired,
                   equilibrations, universe, loop, rdf>>

\* simulationProd.reporters.append(app.DCDReporter("water/production.dcd", 1000));
\* simulationProd.reporters.append(app.StateDataReporter("water/production.log", 1000, ...))
AttachProdReporters ==
    /\ pc = "prodReporters"
    /\ simulationProd' = [simulationProd EXCEPT !.reporters = @ \cup ProdReporters]
    /\ files' = [f \in Files |->
                   IF \E r \in ProdReporters : r.file = f THEN <<>> ELSE files[f]]
    /\ Advance
    /\ UNCHANGED <<available, inpcrd, platform, properties, system,
                   simulationNPT, state_eq, contexts, acquired, equilibrations,
                   universe, loop, rdf>>

\* simulationProd.step(500000) is called: endStep = currentStep + 500000
BeginStepProd ==
    /\ pc = "prodStep"
    /\ ~loop.active
    /\ loop' = [active |-> TRUE, chunks |-> 0,
                endStep |-> simulationProd.currentStep + ProdSteps]
    /\ UNCHANGED <<pc, available, inpcrd, platform, properties, system,
                   simulationNPT, simulationProd, state_eq, files, contexts,
                   acquired, equilibrations, history, failedAt, universe, rdf>>

\* one pass of the loop of simulationProd.step(500000)
ChunkProd ==
    /\ pc = "prodStep"
    /\ loop.active
    /\ simulationProd.currentStep < loop.endStep
    /\ LET run == SimulateChunk(simulationProd.currentStep, loop.endStep,
                                simulationProd.reporters, files)
       IN /\ simulationProd' = [simulationProd EXCEPT !.currentStep = run.currentStep]
          /\ files' = run.files
    /\ loop' = [loop EXCEPT !.chunks = @ + 1]
    /\ UNCHANGED <<pc, available, inpcrd, platform, properties, system,
                   simulationNPT, state_eq, contexts, acquired, equilibrations,
                   history, failedAt, universe, rdf>>

\* simulationProd.step(500000) returns
EndStepProd ==
    /\ pc = "prodStep"
    /\ loop.active
    /\ simulationProd.currentStep >= loop.endStep
    /\ simulationProd' \in Integrated(simulationProd)
    /\ loop' = NoLoop
    /\ Advance
    /\ UNCHANGED <<available, inpcrd, platform, properties, system,
                   simulationNPT, state_eq, files, contexts, acquired,
                   equilibrations, universe, rdf>>

\* print("Simulation completed!") and the timings
PrintTimings ==
    /\ pc = "timings"
    /\ Advance
    /\ UNCHANGED <<available, inpcrd, platform, properties, system,
                   simulationNPT, simulationProd, state_eq, files, contexts,
                   acquired, equilibrations, universe, loop, rdf>>

\* u = mda.Universe("water/water_box.prmtop", "water/production.dcd") and the view
LoadUniverse ==
    /\ pc = "universe"
    /\ universe' = [loaded |-> TRUE, n_frames |-> Len(files[DcdFile])]
    /\ Advance
    /\ UNCHANGED <<available, inpcrd, platform, properties, system,
                   simulationNPT, simulationProd, state_eq, files, contexts,
                   acquired, equilibrations, loop, rdf>>

\* rdf_OO = rdf.InterRDF(...); rdf_OO.run(); rdf_OH = rdf.InterRDF(...);
\* rdf_OH.run()   (what the two runs compute is the subject of SpecRDF)
RunRDFs ==
    /\ pc = "rdf"
    /\ Advance
    /\ UNCHANGED <<available, inpcrd, platform, properties, system,
                   simulationNPT, simulationProd, state_eq, files, contexts,
                   acquired, equilibrations, universe, loop, rdf>>

\* plt.figure(...) ... plt.tight_layout()
Plot ==
    /\ pc = "plot"
    /\ Advance
    /\ UNCHANGED <<available, inpcrd, platform, properties, system,
                   simulationNPT, simulationProd, state_eq, files, contexts,
                   acquired, equilibrations, universe, loop, rdf>>

\* An exception raised by a block (for a step() call: by the integrator, in
\* one of its first passes).  No block has a handler for it.
Raise ==
    /\ IsStage(pc)
    /\ loop.chunks <= MaxFailChunk
    /\ failedAt' = pc
    /\ pc' = OnException(pc)
    /\ UNCHANGED <<available, inpcrd, platform, properties, system,
                   simulationNPT, simulationProd, state_eq, files, contexts,
                   acquired, equilibrations, history, universe, loop, rdf>>

\* The process ends (the script finished or died): its contexts are released.
ProcessExit ==
    /\ pc \in {"done", "terminated"}
    /\ pc' = "exited"
    /\ contexts' = {}
    /\ UNCHANGED <<available, inpcrd, platform, properties, system,
                   simulationNPT, simulationProd, state_eq, files, acquired,
                   equilibrations, history, failedAt, universe, loop, rdf>>

Next ==
    \/ LoadInputs
    \/ SelectPlatform
    \/ CreateSystem
    \/ CreateNPT
    \/ InitNPT
    \/ MinimizeEnergy
    \/ AttachNPTReporter
    \/ BeginStepNPT
    \/ ChunkNPT
    \/ EndStepNPT
    \/ GetEquilibratedState
    \/ CreateProd
    \/ InitProd
    \/ AttachProdReporters
    \/ BeginStepProd
    \/ ChunkProd
    \/ EndStepProd
    \/ PrintTimings
    \/ LoadUniverse
    \/ RunRDFs
    \/ Plot
    \/ Raise
    \/ ProcessExit

Spec == Init /\ [][Next]_vars

\* ------------------------------------------------------------ RDF analysis
(***************************************************************************)
(* rdf.InterRDF(g1, g2, range=(0.0, 10.0), bins=100,                       *)
(* exclude_same="residue").run() on bounded water trajectories.  Atoms sit *)
(* on a line, at grid points (Scale points per Angstrom): each residue is  *)
(* an oxygen with a hydrogen one Angstrom to either side, and a frame      *)
(* gives the position of each residue's oxygen.                            *)
(***************************************************************************)
Atom(res, el, k) == [res |-> res, el |-> el, k |-> k]

\* u.select_atoms("element O") / u.select_atoms("element H")
OxygenAtoms(nres) == {Atom(r, "O", 0) : r \in 1..nres}
HydrogenAtoms(nres) == {Atom(r, "H", k) : r \in 1..nres, k \in {1, 2}}

Offset(a) == IF a.el = "O" THEN 0 ELSE IF a.k = 1 THEN Scale ELSE 0 - Scale

Abs(x) == IF x < 0 THEN 0 - x ELSE x

Distance(frame, a, b) ==
    Abs((frame[a.res] + Offset(a)) - (frame[b.res] + Offset(b)))

\* The oxygen positions a frame may assign.
OxygenPositions == {0, 3 * Scale, RDFRangeHi * Scale, (RDFRangeHi + 1) * Scale}

\* Distances depend on differences of positions only: the first residue's
\* oxygen is put at the origin.
Frames(nres) == {f \in [1..nres -> OxygenPositions] : f[1] = 0}

Trajectories(nres) ==
    UNION {[1..n -> Frames(nres)] : n \in 1..MaxFrames}

\* capped_distance(g1.positions, g2.positions, max_cutoff=range[1]): the pairs
\* of the two groups no farther apart than the cutoff.
CappedPairs(frame, g1, g2) ==
    {pr \in g1 \X g2 : Distance(frame, pr[1], pr[2]) <= RDFRangeHi * Scale}

\* An analysis that keeps every pair.
KeepAllPairs(pairs) == pairs

\* exclude_same="residue": the pairs whose atoms are of different residues.
ExcludeSame(pairs) == {pr \in pairs : pr[1].res # pr[2].res}

\* np.histogram's bin of a value in [lo, hi]: bins are half open, but for the
\* last, which holds hi as well (bins are numbered from 1).
BinOf(d) ==
    IF d = RDFRangeHi * Scale THEN RDFBins
    ELSE (((d - RDFRangeLo * Scale) * RDFBins)
            \div ((RDFRangeHi - RDFRangeLo) * Scale)) + 1

\* np.histogram(dist, bins=100, range=(0.0, 10.0)) of the pairs' distances;
\* a value outside the range is counted nowhere.
Histogram(frame, pairs) ==
    LET inRange == {pr \in pairs :
                      /\ Distance(frame, pr[1], pr[2]) >= RDFRangeLo * Scale
                      /\ Distance(frame, pr[1], pr[2]) <= RDFRangeHi * Scale}
        hit == {BinOf(Distance(frame, pr[1], pr[2])) : pr \in inRange}
    IN [i \in 1..RDFBins |->
          IF i \in hit
            THEN Cardinality({pr \in inRange :
                                BinOf(Distance(frame, pr[1], pr[2])) = i})
            ELSE 0]

\* The bin edges, in units of 1/(2 * bins) Angstrom (so that the midpoints
\* are whole numbers): bins + 1 of them, from lo to hi.
Edges ==
    [i \in 1..(RDFBins + 1) |->
        2 * (RDFRangeLo * RDFBins + (i - 1) * (RDFRangeHi - RDFRangeLo))]

\* np.diff(np.power(edges, 3)), with the edges in units of 1/bins Angstrom
ShellVolumes(edges) ==
    [i \in 1..(Len(edges) - 1) |->
        LET lo == edges[i] \div 2
            hi == edges[i + 1] \div 2
        IN hi * hi * hi - lo * lo * lo]

\* results.bins = 0.5 * (edges[:-1] + edges[1:])
Midpoints(edges) ==
    [i \in 1..(Len(edges) - 1) |-> (edges[i] + edges[i + 1]) \div 2]

\* InterRDF._prepare
Prepare(g1, g2) ==
    [g1 |-> g1, g2 |-> g2, frame |-> 0,
     count |-> [i \in 1..RDFBins |-> 0],
     edges |-> Edges, bins |-> Midpoints(Edges)]

\* InterRDF._single_frame
SingleFrame(a, frame) ==
    LET pairs == ExcludeSame(CappedPairs(frame, a.g1, a.g2))
        h == Histogram(frame, pairs)
    IN [a EXCEPT !.frame = @ + 1,
                 !.count = [i \in 1..RDFBins |-> a.count[i] + h[i]]]

\* InterRDF._conclude: rdf = count / norm, bin by bin.  The norm of a bin is
\* n_frames * (shell volume) * N / (box volume); a quotient is kept as its
\* count and the factors of its norm that vary.
Conclude(a) ==
    [bins |-> a.bins,
     count |-> a.count,
     rdf |-> [i \in 1..Len(a.count) |->
                [count |-> a.count[i],
                 n_frames |-> a.frame,
                 N |-> Cardinality(a.g1) * Cardinality(a.g2),
                 shell |-> ShellVolumes(a.edges)[i]]]]

NoResults == [bins |-> <<>>, count |-> <<>>, rdf |-> <<>>]
NoAnalysis == [g1 |-> {}, g2 |-> {}, frame |-> 0, count |-> <<>>,
               edges |-> <<>>, bins |-> <<>>]

\* The script is at the analysis block, with a universe of nres waters and
\* the frames of `traj`.
InitRDF ==
    /\ \E nres \in 1..MaxRes : \E traj \in Trajectories(nres) :
         /\ rdf = [phase |-> "start", nres |-> nres, traj |-> traj,
                   run |-> NoAnalysis, rdf_OO |-> NoResults,
                   rdf_OH |-> NoResults]
         /\ universe = [loaded |-> TRUE, n_frames |-> Len(traj)]
    /\ pc = "rdf"
    /\ available = {"Reference"}
    /\ inpcrd = [positions |-> 0, boxVectors |-> <<>>]
    /\ platform = "Reference"
    /\ properties = "unbound"
    /\ system = NoSystem
    /\ simulationNPT = NoSimulation
    /\ simulationProd = NoSimulation
    /\ state_eq = NoState
    /\ files = [f \in Files |-> <<>>]
    /\ contexts = {}
    /\ acquired = 0
    /\ equilibrations = <<>>
    /\ history = <<>>
    /\ failedAt = "none"
    /\ loop = NoLoop

\* rdf_OO = rdf.InterRDF(oxygen_atoms, oxygen_atoms, ...) and the start of run()
PrepareOO ==
    /\ rdf.phase = "start"
    /\ rdf' = [rdf EXCEPT !.phase = "OO",
                 !.run = Prepare(OxygenAtoms(rdf.nres), OxygenAtoms(rdf.nres))]
    /\ UNCHANGED wfVars

\* rdf_OH = rdf.InterRDF(oxygen_atoms, hydrogen_atoms, ...) and the start of run()
PrepareOH ==
    /\ rdf.phase = "OO-done"
    /\ rdf' = [rdf EXCEPT !.phase = "OH",
                 !.run = Prepare(OxygenAtoms(rdf.nres), HydrogenAtoms(rdf.nres))]
    /\ UNCHANGED wfVars

\* run(): the next frame of the trajectory
NextFrame ==
    /\ rdf.phase \in {"OO", "OH"}
    /\ rdf.run.frame < Len(rdf.traj)
    /\ rdf' = [rdf EXCEPT
                 !.run = SingleFrame(rdf.run, rdf.traj[rdf.run.frame + 1])]
    /\ UNCHANGED wfVars

\* run(): after the last frame of rdf_OO
ConcludeOO ==
    /\ rdf.phase = "OO"
    /\ rdf.run.frame = Len(rdf.traj)
    /\ rdf' = [rdf EXCEPT !.phase = "OO-done", !.rdf_OO = Conclude(rdf.run)]
    /\ UNCHANGED wfVars

\* run(): after the last frame of rdf_OH
ConcludeOH ==
    /\ rdf.phase = "OH"
    /\ rdf.run.frame = Len(rdf.traj)
    /\ rdf' = [rdf EXCEPT !.phase = "done", !.rdf_OH = Conclude(rdf.run)]
    /\ UNCHANGED wfVars

NextRDF ==
    \/ PrepareOO
    \/ NextFrame
    \/ ConcludeOO
    \/ PrepareOH
    \/ ConcludeOH

SpecRDF == InitRDF /\ [][NextRDF]_vars

\* ------------------------------------------------------------------ claims
Completed(stage) == \E i \in 1..Len(history) : history[i] = stage

\* The production context holds what InitProd gave it: no pass of the
\* production run's loop has been made yet.
BeforeFirstProdStep ==
    \/ pc = "prodReporters"
    \/ pc = "prodStep" /\ loop.chunks = 0

\* C1: before its first step the production context holds exactly the
\* positions, velocities and box vectors read from the NPT context after its
\* 50000 steps (the positions as getState returns them, wrapped into the
\* box); all three have been set, and what was read is still what the NPT
\* context gives.
StateHandoff ==
    BeforeFirstProdStep =>
        /\ simulationNPT.currentStep = NPTSteps
        /\ state_eq.read
        /\ state_eq.positions = Wrap(simulationNPT.positions, simulationNPT.box)
        /\ state_eq.velocities = simulationNPT.velocities
        /\ state_eq.box = simulationNPT.box
        /\ simulationProd.positions = state_eq.positions
        /\ simulationProd.velocities = state_eq.velocities
        /\ simulationProd.box = state_eq.box
        /\ simulationProd.posSet
        /\ simulationProd.velSet
        /\ simulationProd.boxSet

\* A hand-off of nonzero velocities and of positions that getState wrapped.
StateHandoffWitness ==
    /\ pc = "prodStep"
    /\ loop.active
    /\ loop.chunks = 0
    /\ simulationProd.velocities > 0
    /\ simulationNPT.positions # simulationProd.positions

\* C2: the platform selected is CUDA when it is installed and Reference
\* otherwise, and the contexts of both simulations run on the platform
\* selected.
PlatformFallbackUsed ==
    /\ platform # "unbound" =>
         platform = (IF "CUDA" \in available THEN "CUDA" ELSE "Reference")
    /\ simulationNPT.exists => simulationNPT.platform = platform
    /\ simulationProd.exists => simulationProd.platform = platform

\* C3: a production run that completed has written ProdSteps / DCDInterval
\* (500) frames to water/production.dcd, and nothing is written there before
\* the production run.
ProductionFrameCount ==
    /\ Completed("prodStep") =>
         Len(files[DcdFile]) = ProdSteps \div DCDInterval
    /\ ~(pc = "prodStep" \/ Completed("prodStep") \/ failedAt = "prodStep") =>
         files[DcdFile] = <<>>

ProductionFrameCountWitness ==
    /\ pc = "universe"
    /\ Len(files[DcdFile]) = 500
    /\ Len(files[NptLogFile]) > 0

\* C4: the production context integrates at constant volume: its system
\* holds no barostat, and its box stays the one set from the equilibrated
\* state.
ProductionIsNVT ==
    simulationProd.exists =>
        /\ Barostat \notin simulationProd.forces
        /\ simulationProd.boxSet => simulationProd.box = state_eq.box

\* C5: the production run is preceded by two equilibration runs, an NPT one
\* and then an NVT one, and the analysis comes only after the production run.
TwoEquilibrationsThenProduction ==
    /\ (pc = "prodStep" \/ Completed("prodStep")) =>
         equilibrations = <<"NPT", "NVT">>
    /\ universe.loaded => Completed("prodStep")

\* The pairs of different residues of g1 x g2, over all frames of the
\* trajectory, whose distance lies in the range.
InterResiduePairs(g1, g2) ==
    {t \in (1..Len(rdf.traj)) \X g1 \X g2 :
        LET d == Distance(rdf.traj[t[1]], t[2], t[3])
        IN /\ t[2].res # t[3].res
           /\ d >= RDFRangeLo * Scale
           /\ d <= RDFRangeHi * Scale}

TripleBin(t) == BinOf(Distance(rdf.traj[t[1]], t[2], t[3]))

RDFResultOK(res, g1, g2) ==
    LET inter == InterResiduePairs(g1, g2)
        filled == {TripleBin(t) : t \in inter}
    IN /\ Len(res.bins) = RDFBins
       /\ Len(res.rdf) = RDFBins
       /\ \A i \in 1..Len(res.bins) :
            /\ res.bins[i] > 2 * RDFBins * RDFRangeLo
            /\ res.bins[i] < 2 * RDFBins * RDFRangeHi
       /\ \A i \in 1..Len(res.rdf) :
            IF i \in filled
              THEN res.rdf[i].count = Cardinality({t \in inter : TripleBin(t) = i})
              ELSE res.rdf[i].count = 0

FatalFailure ==
    failedAt # "none" =>
        /\ pc \in {"terminated", "exited"}
        /\ \A i \in 1..Len(history) : Index(history[i]) < Index(failedAt)
        /\ Index(failedAt) <= Index("getState") => ~simulationProd.exists
        /\ Index(failedAt) <= Index("prodStep") => ~universe.loaded

\* The CUDA lookup failed and was caught, and the production run raised
\* after its first pass.
FatalFailureWitness ==
    /\ failedAt = "prodStep"
    /\ platform = "Reference"
    /\ pc = "terminated"
    /\ Len(files[DcdFile]) = 1

\* C8 as stated: one context is acquired over the run, it lives until the
\* process ends, and no two contexts ever exist together.
SingleDeviceContext ==
    /\ acquired <= 1
    /\ Cardinality(contexts) <= 1
    /\ pc # "exited" => Cardinality(contexts) = acquired

\* C8 amended: a context is acquired once for each Simulation made, at most
\* two over the run; none is released before the process ends, so from the
\* making of the production simulation on both exist together.
ContextPerSimulation ==
    /\ acquired <= 2
    /\ acquired = Cardinality({s \in {simulationNPT, simulationProd} : s.exists})
    /\ pc # "exited" => Cardinality(contexts) = acquired
    /\ (simulationProd.exists /\ pc # "exited") =>
         contexts = {"simulationNPT", "simulationProd"}
    /\ pc = "exited" => contexts = {}

ContextPerSimulationWitness ==
    /\ pc = "rdf"
    /\ contexts = {"simulationNPT", "simulationProd"}
    /\ acquired = 2

\* C9: the equilibrated state is read only after all 50000 NPT steps and
\* their 50 log entries; the production simulation is made only after that
\* read; the trajectory is opened only after all 500000 production steps and
\* their 500 frames; no NPT step is made before the minimisation is done.
BlockingOrder ==
    /\ state_eq.read =>
         /\ simulationNPT.currentStep = NPTSteps
         /\ Len(files[NptLogFile]) = NPTSteps \div NPTLogInterval
    /\ simulationProd.exists => state_eq.read
    /\ universe.loaded =>
         /\ simulationProd.currentStep = ProdSteps
         /\ Len(files[DcdFile]) = ProdSteps \div DCDInterval
         /\ universe.n_frames = Len(files[DcdFile])
    /\ (simulationNPT.currentStep > 0 \/ (pc = "nptStep" /\ loop.active)) =>
         Completed("minimize")

BlockingOrderWitness ==
    /\ pc = "plot"
    /\ universe.loaded
    /\ universe.n_frames = 500
    /\ state_eq.read

\* C10: the i-th entry of each log and the i-th trajectory frame are made at
\* step 1000 * i (so never at step 0); the production log and the trajectory
\* have their entries at the same steps; nothing is written up to and
\* including the minimisation; a completed NPT run leaves 50 log entries and
\* a completed production run 500.
ReportAlignment ==
    /\ \A i \in 1..Len(files[NptLogFile]) :
         files[NptLogFile][i] = i * NPTLogInterval
    /\ \A i \in 1..Len(files[ProdLogFile]) :
         files[ProdLogFile][i] = i * ProdLogInterval
    /\ \A i \in 1..Len(files[DcdFile]) :
         files[DcdFile][i] = i * DCDInterval
    /\ files[ProdLogFile] = files[DcdFile]
    /\ (IsStage(pc) /\ Index(pc) <= Index("nptReporter")) =>
         \A f \in Files : files[f] = <<>>
    /\ Completed("nptStep") => Len(files[NptLogFile]) = 50
    /\ Completed("prodStep") => Len(files[ProdLogFile]) = 500

ReportAlignmentWitness ==
    /\ pc = "done"
    /\ Len(files[NptLogFile]) = 50
    /\ files[NptLogFile][50] = 50000
    /\ Len(files[ProdLogFile]) = 500
    /\ files[DcdFile][500] = 500000

=============================================================================
